---- MODULE Spec2Model ----
(***************************************************************************)
(* A model of gen_gl.py: the helpers (implied decimal, filename dates,     *)
(* latest-file selection, sheet naming, max rank, column letters), the     *)
(* per-file pipeline of process_data_in_memory (database sheet lookup,     *)
(* columns read, row keys, report heights, sheet layout and formula        *)
(* ranges, lookup formulas, sheet creation under the per-file try) and     *)
(* the file discovery of the Streamlit UI.                                 *)
(*                                                                         *)
(* Texts are sequences of one-character strings, so slicing, stripping,    *)
(* case folding and number formatting are computed, not assumed.           *)
(* An optional value (Python's None) is a record [ok, s].                  *)
(***************************************************************************)
EXTENDS Integers, Sequences, FiniteSets, TLC

VARIABLES
    pc,             \* the step the modelled run is at
    filename,       \* parser: the argument of parse_dates_from_filename
    dates,          \* parser: its result (d_date, jv_date)
    val,            \* implied decimal: the raw cell text read from the database sheet
    converted,      \* implied decimal: the cell after strip and convert_implied_decimal
    cells,          \* columns: a row of the database sheet and of the source file, as stored
    extracted,      \* columns: that row in the two tables read with usecols
    archive,        \* discovery: the files of the uploaded ZIP
    runs,           \* discovery: one record per processing of the archive
    item,           \* pipeline: the entry of files_to_process being handled
    db_book,        \* pipeline: the database workbook, sheet name -> sheet
    db_sheet_to_use,\* pipeline: the name of the database sheet chosen for the file
    db_sheet,       \* pipeline: the database sheet matched to the file, as read
    gl_file,        \* pipeline: the rows of the source file, as read
    db_df,          \* pipeline: the database table as written to the sheet
    gl_df,          \* pipeline: the source (ATMI/GL) table as written to the sheet
    layout,         \* pipeline: the report sections written to the sheet
    ws,             \* pipeline: the rows and formula ranges of the sheet written
    searchbox,      \* pipeline: the text typed in cell B1 of the sheet
    report,         \* pipeline: what the report formulas evaluate to
    todo,           \* workbook: files_to_process still to be handled (desired sheet names)
    sheetnames,     \* workbook: writer.book.sheetnames
    done            \* workbook: one record per file handled

vars == <<pc, filename, dates, val, converted, cells, extracted, archive, runs, item, db_book,
          db_sheet_to_use, db_sheet, gl_file, db_df, gl_df, layout, ws, searchbox,
          report, todo, sheetnames, done>>

parserVars == <<filename, dates>>
decimalVars == <<val, converted, cells, extracted>>
discoveryVars == <<archive, runs>>
pipelineVars == <<item, db_book, db_sheet_to_use, db_sheet, gl_file, db_df, gl_df,
                  layout, ws, searchbox, report>>
workbookVars == <<todo, sheetnames, done>>

----------------------------------------------------------------------------
(* Bounds of the model *)

MaxPieces == 4      \* a filename is made of at most this many pieces
MaxFiles == 3       \* an archive holds at most this many files
MaxDbRows == 3      \* a database sheet holds at most this many rows
MaxGlRows == 2      \* a short source file holds at most this many rows
MaxOver == 1        \* a tall source file exceeds the reserved rows by at most this
MaxSheets == 3      \* files_to_process holds at most this many files
MaxValLen == 4      \* a database cell holds at most this many characters

----------------------------------------------------------------------------
(* Text helpers: Python's str operations on sequences of characters *)

UpperCase == <<"A","B","C","D","E","F","G","H","I","J","K","L","M",
               "N","O","P","Q","R","S","T","U","V","W","X","Y","Z">>
LowerCase == <<"a","b","c","d","e","f","g","h","i","j","k","l","m",
               "n","o","p","q","r","s","t","u","v","w","x","y","z">>
Digits == <<"0","1","2","3","4","5","6","7","8","9">>

\* the characters the model uses, in code-point order
Ascii == <<" ", "*", "-", ".", "/">> \o Digits \o <<":", "?">> \o UpperCase
         \o <<"_">> \o LowerCase \o <<"|">>

IndexIn(c, seq) ==
    IF \E i \in 1..Len(seq) : seq[i] = c
    THEN CHOOSE i \in 1..Len(seq) : seq[i] = c
    ELSE 0

Chars == {Ascii[i] : i \in 1..Len(Ascii)}
OrdOf == [c \in Chars |-> IndexIn(c, Ascii)]
LowerOf == [c \in Chars |-> IF IndexIn(c, UpperCase) > 0 THEN LowerCase[IndexIn(c, UpperCase)] ELSE c]
UpperOf == [c \in Chars |-> IF IndexIn(c, LowerCase) > 0 THEN UpperCase[IndexIn(c, LowerCase)] ELSE c]

Ord(c) == OrdOf[c]
LowerChar(c) == LowerOf[c]
UpperChar(c) == UpperOf[c]

Lower(s) == [i \in 1..Len(s) |-> LowerChar(s[i])]
Upper(s) == [i \in 1..Len(s) |-> UpperChar(s[i])]

DigitChars == {Digits[i] : i \in 1..Len(Digits)}
IsDigitChar(c) == c \in DigitChars
DigitVal(c) == IndexIn(c, Digits) - 1

\* str.isdigit(): non-empty and every character a digit
IsDigit(s) == Len(s) > 0 /\ \A i \in 1..Len(s) : IsDigitChar(s[i])

\* s[a:b] of Python, 0-based and end-exclusive, clipped to the text
Slice(s, a, b) ==
    LET lo == IF a < 0 THEN 0 ELSE a
        hi == IF b > Len(s) THEN Len(s) ELSE b
    IN IF hi <= lo THEN <<>> ELSE SubSeq(s, lo + 1, hi)

StartsWith(s, p) == Len(s) >= Len(p) /\ SubSeq(s, 1, Len(p)) = p
EndsWith(s, p) == Len(s) >= Len(p) /\ SubSeq(s, Len(s) - Len(p) + 1, Len(s)) = p

\* p occurs in s
Contains(s, p) == \E i \in 0..(Len(s) - Len(p)) : SubSeq(s, i + 1, i + Len(p)) = p

RECURSIVE LStrip(_)
LStrip(s) == IF Len(s) > 0 /\ Head(s) = " " THEN LStrip(Tail(s)) ELSE s

RECURSIVE RStrip(_)
RStrip(s) == IF Len(s) > 0 /\ s[Len(s)] = " " THEN RStrip(SubSeq(s, 1, Len(s) - 1)) ELSE s

\* str.strip()
Strip(s) == RStrip(LStrip(s))

\* int(s) of a text of digits
RECURSIVE DecValue(_)
DecValue(s) ==
    IF Len(s) = 0 THEN 0
    ELSE 10 * DecValue(SubSeq(s, 1, Len(s) - 1)) + DigitVal(s[Len(s)])

\* str(n) of a natural number
RECURSIVE NatToStr(_)
NatToStr(n) ==
    IF n < 10 THEN <<Digits[n + 1]>>
    ELSE NatToStr(n \div 10) \o <<Digits[(n % 10) + 1]>>

\* a < b in Python's comparison of str (code point by code point, then length)
RECURSIVE StrLess(_, _)
StrLess(a, b) ==
    IF Len(b) = 0 THEN FALSE
    ELSE IF Len(a) = 0 THEN TRUE
    ELSE IF Ord(Head(a)) # Ord(Head(b)) THEN Ord(Head(a)) < Ord(Head(b))
    ELSE StrLess(Tail(a), Tail(b))

None == [ok |-> FALSE, s |-> <<>>]
Some(s) == [ok |-> TRUE, s |-> s]

SeqsUpTo(S, n) == UNION {[1..k -> S] : k \in 0..n}

RECURSIVE Flatten(_)
Flatten(ss) == IF Len(ss) = 0 THEN <<>> ELSE Head(ss) \o Flatten(Tail(ss))

----------------------------------------------------------------------------
(* parse_dates_from_filename *)

\* os.path.basename: what follows the last "/"
RECURSIVE basename(_)
basename(p) ==
    IF Len(p) = 0 THEN <<>>
    ELSE IF p[Len(p)] = "/" THEN <<>>
    ELSE basename(SubSeq(p, 1, Len(p) - 1)) \o <<p[Len(p)]>>

\* n digits stand at positions i .. i+n-1 of s
DigitsAt(s, i, n) == i + n - 1 <= Len(s) /\ \A k \in i..(i + n - 1) : IsDigitChar(s[k])

\* the pattern D\d{6} (IGNORECASE) matches with its D at position i
DLetterAt(s, i) == i >= 1 /\ i <= Len(s) /\ UpperChar(s[i]) = "D" /\ DigitsAt(s, i + 1, 6)

\* [-_]?D(?P<d>\d{6}) tried at start position st: the position of the D, or 0.
\* The optional prefix is tried first, then the match without it.
DMatchAt(s, st) ==
    IF st <= Len(s) /\ s[st] \in {"-", "_"} /\ DLetterAt(s, st + 1) THEN st + 1
    ELSE IF DLetterAt(s, st) THEN st
    ELSE 0

\* re.search: the leftmost start position that matches
RECURSIVE DSearch(_, _)
DSearch(s, st) ==
    IF st > Len(s) THEN 0
    ELSE IF DMatchAt(s, st) > 0 THEN DMatchAt(s, st)
    ELSE DSearch(s, st + 1)

\* JV(?P<jv>\d{8}) (IGNORECASE) matches at position i
JVMatchAt(s, i) ==
    /\ i >= 1 /\ i + 1 <= Len(s)
    /\ UpperChar(s[i]) = "J" /\ UpperChar(s[i + 1]) = "V"
    /\ DigitsAt(s, i + 2, 8)

RECURSIVE JVSearch(_, _)
JVSearch(s, st) ==
    IF st > Len(s) THEN 0
    ELSE IF JVMatchAt(s, st) THEN st
    ELSE JVSearch(s, st + 1)

JvShortBad(jv_full) == Slice(jv_full, 0, 6)
\* jv_full[2:4] + jv_full[4:6] + jv_full[6:8]
JvShort(jv_full) == Slice(jv_full, 2, 4) \o Slice(jv_full, 4, 6) \o Slice(jv_full, 6, 8)

parse_dates_from_filename(fn) ==
    LET base == basename(fn)
        dpos == DSearch(base, 1)
        jpos == JVSearch(base, 1)
        d_date == IF dpos > 0 THEN Some(SubSeq(base, dpos + 1, dpos + 6)) ELSE None
        jv_date == IF jpos > 0 THEN Some(JvShort(SubSeq(base, jpos + 2, jpos + 9))) ELSE None
    IN [d |-> d_date, jv |-> jv_date]

\* the pieces filenames are made of
cJV == <<"J", "v">>
cD8 == <<"2","0","2","5","1","2","2","1">>
cD6 == <<"2","5","1","1","1","0">>
FilePieces == {cJV, <<"D">>, <<"d">>, <<"-">>, <<"/">>, cD8, cD6, <<"x">>}

Filenames == {Flatten(ps) : ps \in SeqsUpTo(FilePieces, MaxPieces)}

IdleParser == filename = <<>> /\ dates = [d |-> None, jv |-> None]
NoCells == [db_width |-> 0, gl_width |-> 0, az |-> <<>>, cu |-> <<>>, other |-> <<>>]
NoColumns == [db |-> <<>>, gl |-> <<>>]
IdleColumns == cells = NoCells /\ extracted = NoColumns
IdleDecimal ==
    /\ val = <<>> /\ converted = [kind |-> "text", text |-> <<>>, hundredths |-> 0]
    /\ IdleColumns
IdleDiscovery == archive = {} /\ runs = <<>>
NoLayout == [db_section |-> FALSE, db_rows |-> 0, gl_section |-> FALSE, gl_rows |-> 0]
NoItem == [file |-> <<>>, d_date |-> None, jv_date |-> None]
NoBook == <<>>
IdleSelection == item = NoItem /\ db_book = NoBook /\ db_sheet_to_use = None
\* a cell range $C$first:$C$last, C the col-th column letter
Range(col, first, last) == [col |-> col, first |-> first, last |-> last]

\* a raw table, a report section that is not written, and a sheet without any
NoTable == [written |-> FALSE, label_row |-> 0, header_row |-> 0, header |-> <<>>,
            data_start |-> 0, data_end |-> 0, key_col |-> 1]
NoSection == [written |-> FALSE, label_row |-> 0, header_row |-> 0, header |-> <<>>,
              first_row |-> 0, last_row |-> 0, key_range |-> Range(1, 0, 0), value_ranges |-> <<>>]
NoWorksheet == [search_row |-> 0, db_report |-> NoSection, gl_report |-> NoSection,
                raw_db |-> NoTable, raw_gl |-> NoTable]

\* no database sheet read: the table stays pd.DataFrame()
NoSheet == [ok |-> FALSE, width |-> 0, named |-> FALSE, rows |-> <<>>]
IdlePipeline ==
    /\ IdleSelection
    /\ db_sheet = NoSheet /\ gl_file = <<>>
    /\ db_df = <<>> /\ gl_df = <<>>
    /\ layout = NoLayout /\ ws = NoWorksheet
    /\ searchbox = <<>> /\ report = [db |-> <<>>, gl |-> <<>>]
IdleWorkbook == todo = <<>> /\ sheetnames = <<>> /\ done = <<>>

InitParse ==
    /\ pc = "parse"
    /\ filename \in Filenames
    /\ dates = [d |-> None, jv |-> None]
    /\ IdleDecimal /\ IdleDiscovery /\ IdlePipeline /\ IdleWorkbook

Parse ==
    /\ pc = "parse"
    /\ dates' = parse_dates_from_filename(filename)
    /\ pc' = "parsed"
    /\ UNCHANGED <<filename, decimalVars, discoveryVars, pipelineVars, workbookVars>>

SpecParse == InitParse /\ [][Parse]_vars

\* C2 in declarative form: what the name of the file (its last path component) holds
HasDMarker(base) == \E i \in 1..Len(base) : DLetterAt(base, i)
HasJVMarker(base) == \E i \in 1..Len(base) : JVMatchAt(base, i)
FirstD(base) == CHOOSE i \in 1..Len(base) : DLetterAt(base, i) /\ \A j \in 1..(i - 1) : ~DLetterAt(base, j)
FirstJV(base) == CHOOSE i \in 1..Len(base) : JVMatchAt(base, i) /\ \A j \in 1..(i - 1) : ~JVMatchAt(base, j)

\* C2: a name with a D marker and a JV marker gives dateA = the 6 digits after the
\* (first) D marker and dateB = the last 6 of the 8 digits after JV; a marker that is
\* absent gives an absent token.
C2_ParserRecoversDates ==
    pc = "parsed" =>
        LET base == basename(filename) IN
        /\ HasDMarker(base) =>
              /\ dates.d.ok
              /\ dates.d.s = [k \in 1..6 |-> base[FirstD(base) + k]]
        /\ HasJVMarker(base) =>
              /\ dates.jv.ok
              /\ dates.jv.s = [k \in 1..6 |-> base[FirstJV(base) + 3 + k]]
        /\ ~HasDMarker(base) => dates.d = None
        /\ ~HasJVMarker(base) => dates.jv = None

\* a name with both markers, in the order of the documented example, has been parsed
C2_Witness ==
    /\ pc = "parsed"
    /\ filename = cJV \o cD8 \o <<"D">> \o cD6
    /\ dates = [d |-> Some(cD6), jv |-> Some(<<"2","5","1","2","2","1">>)]

----------------------------------------------------------------------------
(* convert_implied_decimal, applied to a database cell read as text *)

Text(t) == [kind |-> "text", text |-> t, hundredths |-> 0]
\* float(t) / 100.0, kept exact as a count of hundredths
Number(t) == [kind |-> "num", text |-> <<>>, hundredths |-> DecValue(t)]

convert_leading_zero(v) ==
    LET val_str == Strip(v)
    IN IF (~IsDigit(val_str)) \/ (~StartsWith(val_str, <<"0">>)) THEN Text(val_str)
       ELSE Number(val_str)

convert_implied_decimal(v) ==
    LET val_str == Strip(v)
    IN IF (~IsDigit(val_str)) \/ (~StartsWith(val_str, <<"0", "0">>)) THEN Text(val_str)
       ELSE Number(val_str)

\* db_df[col].astype(str).str.strip(), then .apply(convert_implied_decimal)
LoadDecimalCell(raw) == convert_implied_decimal(Strip(raw))

CellChars == {"0", "5", "A", " "}
CellTexts == SeqsUpTo(CellChars, MaxValLen)

InitDecimal ==
    /\ pc = "cell"
    /\ val \in CellTexts
    /\ converted = Text(<<>>)
    /\ IdleColumns
    /\ IdleParser /\ IdleDiscovery /\ IdlePipeline /\ IdleWorkbook

ConvertCell ==
    /\ pc = "cell"
    /\ converted' = LoadDecimalCell(val)
    /\ pc' = "converted"
    /\ UNCHANGED <<val, cells, extracted, parserVars, discoveryVars, pipelineVars, workbookVars>>

SpecDecimal == InitDecimal /\ [][ConvertCell]_vars

\* the number a text of digits denotes, times 100 / 100: digit by digit
RECURSIVE DigitSum(_, _)
DigitSum(t, i) == IF i > Len(t) THEN 0 ELSE DigitVal(t[i]) * (10 ^ (Len(t) - i)) + DigitSum(t, i + 1)

\* C8: the cell becomes (its number) / 100 exactly when its text is all digits and
\* begins with "00"; every other cell keeps its text unchanged.
C8_ImpliedDecimal ==
    pc = "converted" =>
        LET t == Strip(val)
            allDigits == Len(t) > 0 /\ \A i \in 1..Len(t) : t[i] \in {"0","1","2","3","4","5","6","7","8","9"}
            twoZeros == Len(t) >= 2 /\ t[1] = "0" /\ t[2] = "0"
        IN IF allDigits /\ twoZeros
           THEN converted.kind = "num" /\ converted.hundredths = DigitSum(t, 1)
           ELSE converted.kind = "text" /\ converted.text = t

\* "0050" became 0.5 (50 hundredths), "50" and "00A" stayed text
C8_Witness ==
    /\ pc = "converted"
    /\ val = <<"0", "0", "5", "0">>
    /\ converted = [kind |-> "num", text |-> <<>>, hundredths |-> 50]

----------------------------------------------------------------------------
(* The columns read from the database sheet and from the source file: the letter *)
(* lists, excel_col_to_index, usecols, and the two columns that are rescaled.     *)

\* the loop of excel_col_to_index: digits are skipped, a letter counts 1..26
RECURSIVE ColumnNumber(_, _)
ColumnNumber(col_str, num) ==
    IF Len(col_str) = 0 THEN num
    ELSE IF IsDigitChar(Head(col_str)) THEN ColumnNumber(Tail(col_str), num)
    ELSE ColumnNumber(Tail(col_str), num * 26 + IndexIn(UpperChar(Head(col_str)), UpperCase))

excel_col_to_index(col_str) == ColumnNumber(col_str, 0) - 1

cAZ == <<"A","Z">>
cCU == <<"C","U">>
cBH == <<"B","H">>
gl_columns_letters == <<<<"J">>, <<"K">>, <<"L">>, <<"M">>, <<"N">>, <<"P">>,
                        <<"A","M">>, <<"A","N">>, cAZ>>
tlf_columns_letters == <<<<"F">>, <<"G">>, <<"I">>, <<"J">>, <<"K">>, <<"M">>, <<"O">>, <<"V">>,
                         <<"A","F">>, <<"A","S">>, <<"A","T">>, <<"A","U">>, <<"A","V">>,
                         <<"A","X">>, cAZ, cCU, <<"D","P">>, cBH>>

gl_indices == [i \in 1..Len(gl_columns_letters) |-> excel_col_to_index(gl_columns_letters[i])]
tlf_indices == [i \in 1..Len(tlf_columns_letters) |-> excel_col_to_index(tlf_columns_letters[i])]

\* the numbers of a set, ascending
RECURSIVE Ascending(_)
Ascending(S) ==
    IF S = {} THEN <<>>
    ELSE LET lo == CHOOSE x \in S : \A y \in S : x <= y
         IN <<lo>> \o Ascending(S \ {lo})

\* read_excel / read_csv with usecols = a list of positions: the listed columns the
\* table has, in the order they stand in the table, whatever the order of the list
usecols(indices, width) ==
    Ascending({indices[i] : i \in 1..Len(indices)} \cap 0..(width - 1))

\* sorted(tlf_columns_letters, key=excel_col_to_index)
RECURSIVE InsertLetter(_, _)
InsertLetter(sorted, l) ==
    IF Len(sorted) = 0 THEN <<l>>
    ELSE IF excel_col_to_index(l) < excel_col_to_index(Head(sorted)) THEN <<l>> \o sorted
    ELSE <<Head(sorted)>> \o InsertLetter(Tail(sorted), l)

RECURSIVE SortLetters(_)
SortLetters(letters) ==
    IF Len(letters) = 0 THEN <<>>
    ELSE InsertLetter(SortLetters(SubSeq(letters, 1, Len(letters) - 1)), letters[Len(letters)])

sorted_letters == SortLetters(tlf_columns_letters)

\* 0-based position of the letter, -1 when it is not listed
get_col_pos_in_list(target_letter) == IndexIn(target_letter, tlf_columns_letters) - 1
get_col_pos_in_tlf(target_letter) == IndexIn(target_letter, sorted_letters) - 1

pos_AZ == get_col_pos_in_tlf(cAZ)
pos_CU == get_col_pos_in_tlf(cCU)

\* the text stored in column col (0-based) of the database row
CellAt(row, col) ==
    IF col = excel_col_to_index(cAZ) THEN row.az
    ELSE IF col = excel_col_to_index(cCU) THEN row.cu
    ELSE row.other

\* Load Database on one row: the columns read, every cell stripped, and the cells at
\* positions pos_AZ and pos_CU (when the table is that wide) through
\* convert_implied_decimal
ExtractDatabase(row) ==
    LET cols == usecols(tlf_indices, row.db_width)
        stripped == [j \in 1..Len(cols) |-> Strip(CellAt(row, cols[j]))]
        rescaled(j) == \/ pos_AZ # -1 /\ pos_AZ < Len(cols) /\ j - 1 = pos_AZ
                       \/ pos_CU # -1 /\ pos_CU < Len(cols) /\ j - 1 = pos_CU
    IN [j \in 1..Len(cols) |->
           [col |-> cols[j],
            cell |-> IF rescaled(j) THEN convert_implied_decimal(stripped[j])
                     ELSE Text(stripped[j])]]

\* Load Source on one row: the columns read, as text
ExtractSource(row) ==
    LET cols == usecols(gl_indices, row.gl_width)
    IN [j \in 1..Len(cols) |-> [col |-> cols[j], cell |-> Text(row.other)]]

\* sheets and files as wide as the listed columns need, and narrower ones
WidthTo(letter) == excel_col_to_index(letter) + 1
DbWidths == {WidthTo(<<"I">>), WidthTo(<<"A","F">>), WidthTo(cAZ), WidthTo(cCU), WidthTo(<<"D","P">>)}
GlWidths == {WidthTo(<<"A","N">>), WidthTo(cAZ)}
ColumnTexts == {<<"0","0","5","0">>, <<"5","0">>, <<" ","0","0","7">>}

InitColumns ==
    /\ pc = "read"
    /\ cells \in [db_width : DbWidths, gl_width : GlWidths,
                  az : ColumnTexts, cu : ColumnTexts, other : ColumnTexts]
    /\ extracted = NoColumns
    /\ val = <<>> /\ converted = Text(<<>>)
    /\ IdleParser /\ IdleDiscovery /\ IdlePipeline /\ IdleWorkbook

Missing(indices, width) == \E i \in 1..Len(indices) : indices[i] >= width

\* the two reads of the per-file try
ReadColumns ==
    /\ pc = "read"
    /\ extracted' = [db |-> ExtractDatabase(cells), gl |-> ExtractSource(cells)]
    /\ pc' = "extracted"
    /\ UNCHANGED <<val, converted, cells, parserVars, discoveryVars, pipelineVars, workbookVars>>

\* a listed position beyond the table's width: pandas releases that reject the read
\* raise, and the per-file except skips the file
ReadRaises ==
    /\ pc = "read"
    /\ Missing(tlf_indices, cells.db_width) \/ Missing(gl_indices, cells.gl_width)
    /\ pc' = "skipped"
    /\ UNCHANGED <<decimalVars, parserVars, discoveryVars, pipelineVars, workbookVars>>

SpecColumns == InitColumns /\ [][ReadColumns \/ ReadRaises]_vars

ColumnsOf(table) == [j \in 1..Len(table) |-> table[j].col]
LettersAt(letters) == [i \in 1..Len(letters) |-> excel_col_to_index(letters[i])]

\* the cells of the database table: rescaled in the columns of letters AZ and CU,
\* the stripped text in every other column
OnlyAZandCURescaled ==
    \A j \in 1..Len(extracted.db) :
        LET c == extracted.db[j]
            t == Strip(CellAt(cells, c.col))
            qualifies == IsDigit(t) /\ StartsWith(t, <<"0", "0">>)
        IN IF c.col \in {excel_col_to_index(cAZ), excel_col_to_index(cCU)} /\ qualifies
           THEN c.cell.kind = "num" /\ c.cell.hundredths = DecValue(t)
           ELSE c.cell = Text(t)

\* C13 as claimed: read from a sheet and a file that hold every listed column, the
\* database table has its columns in the order of the letter list (F ... CU, DP, BH)
\* and the source table in the order J ... AZ; only AZ and CU are rescaled.
C13_ColumnsInListOrder ==
    (pc = "extracted" /\ cells.db_width = WidthTo(<<"D","P">>) /\ cells.gl_width = WidthTo(cAZ)) =>
        /\ ColumnsOf(extracted.db) = LettersAt(tlf_columns_letters)
        /\ ColumnsOf(extracted.gl) = LettersAt(gl_columns_letters)
        /\ OnlyAZandCURescaled

\* C13 amended: each table holds exactly the listed columns that the sheet or file
\* has, in the order they stand there (ascending column position): for the database
\* F ... AX, AZ, BH, CU, DP (BH before CU and DP), for the source J ... AZ; only the
\* database columns of letters AZ and CU are rescaled.
C13_ColumnsInSheetOrder ==
    pc = "extracted" =>
        LET db == ColumnsOf(extracted.db)
            gl == ColumnsOf(extracted.gl)
            listed(letters, width) == {excel_col_to_index(letters[i]) : i \in 1..Len(letters)} \cap 0..(width - 1)
        IN /\ \A j, k \in 1..Len(db) : j < k => db[j] < db[k]
           /\ \A j, k \in 1..Len(gl) : j < k => gl[j] < gl[k]
           /\ {db[j] : j \in 1..Len(db)} = listed(tlf_columns_letters, cells.db_width)
           /\ {gl[j] : j \in 1..Len(gl)} = listed(gl_columns_letters, cells.gl_width)
           /\ cells.db_width = WidthTo(<<"D","P">>) =>
                 db = LettersAt(SubSeq(tlf_columns_letters, 1, Len(tlf_columns_letters) - 3)
                                \o <<cBH, cCU, <<"D","P">>>>)
           /\ cells.gl_width = WidthTo(cAZ) => gl = LettersAt(gl_columns_letters)
           /\ OnlyAZandCURescaled

\* a full sheet whose cells all read "0050": BH stands 16th, before CU, and keeps its
\* text, while AZ and CU became 0.5
C13_Witness ==
    /\ pc = "extracted"
    /\ cells.db_width = WidthTo(<<"D","P">>)
    /\ cells.az = <<"0","0","5","0">> /\ cells.cu = <<"0","0","5","0">> /\ cells.other = <<"0","0","5","0">>
    /\ Len(extracted.db) = Len(tlf_columns_letters)
    /\ extracted.db[Len(tlf_columns_letters) - 2] = [col |-> excel_col_to_index(cBH), cell |-> Text(<<"0","0","5","0">>)]
    /\ extracted.db[Len(tlf_columns_letters) - 1].col = excel_col_to_index(cCU)
    /\ extracted.db[Len(tlf_columns_letters) - 1].cell.kind = "num"
    /\ extracted.db[pos_AZ + 1].cell.kind = "num"

----------------------------------------------------------------------------
(* File discovery of the Streamlit UI and pick_latest_files_by_duplicate_d_date *)

valid_exts == {<<".","c","s","v">>, <<".","t","r","f">>, <<".","t","x","t">>,
               <<".","x","l","s">>, <<".","x","l","s","x">>}

\* fn.lower().endswith(valid_exts)
HasValidExt(fn) == \E e \in valid_exts : EndsWith(Lower(fn), e)

\* the directory part of a path relative to the extraction folder ("" for the top)
DirOf(p) == SubSeq(p, 1, Len(p) - Len(basename(p)))

cDATABASE == <<"D","A","T","A","B","A","S","E">>
cMACOSX == <<"_","_","M","A","C","O","S","X">>
cNO_D == <<"_","_","N","O","_","D","_","_",":",":">>

\* jv_int = int(jv_date) if jv_date and jv_date.isdigit() else -1
JvInt(jv_date) == IF jv_date.ok /\ Len(jv_date.s) > 0 /\ IsDigit(jv_date.s) THEN DecValue(jv_date.s) ELSE -1

Entry(key, fn, ds) ==
    [key |-> key, file |-> fn, d_date |-> ds.d, jv_date |-> ds.jv, jv_int |-> JvInt(ds.jv)]

KeyIndex(chosen, key) ==
    IF \E i \in 1..Len(chosen) : chosen[i].key = key
    THEN CHOOSE i \in 1..Len(chosen) : chosen[i].key = key
    ELSE 0

\* chosen[key] = entry: a new key goes last, a known key keeps its place
DictSet(chosen, e) ==
    IF KeyIndex(chosen, e.key) = 0 THEN Append(chosen, e)
    ELSE [chosen EXCEPT ![KeyIndex(chosen, e.key)] = e]

ReplacesOlder(new_jv_int, old_jv_int) == new_jv_int < old_jv_int
\* if jv_int > chosen[d_date].get("_jv_int", -1)
Replaces(new_jv_int, old_jv_int) == new_jv_int > old_jv_int

\* one turn of the loop over files_list
PickStep(chosen, fn) ==
    LET ds == parse_dates_from_filename(fn)
    IN IF ~HasValidExt(fn) THEN chosen
       ELSE IF ~ds.d.ok THEN DictSet(chosen, Entry(cNO_D \o fn, fn, ds))
       ELSE IF KeyIndex(chosen, ds.d.s) = 0 THEN DictSet(chosen, Entry(ds.d.s, fn, ds))
       ELSE IF Replaces(JvInt(ds.jv), chosen[KeyIndex(chosen, ds.d.s)].jv_int)
            THEN DictSet(chosen, Entry(ds.d.s, fn, ds))
       ELSE chosen

RECURSIVE PickLoop(_, _)
PickLoop(chosen, files_list) ==
    IF Len(files_list) = 0 THEN chosen
    ELSE PickLoop(PickStep(chosen, Head(files_list)), Tail(files_list))

\* the sort key: os.path.basename(x["file"]).lower()
SortKey(e) == Lower(basename(e.file))

\* list.sort is stable: an entry goes behind every entry whose key is not greater
RECURSIVE InsertSorted(_, _)
InsertSorted(sorted, e) ==
    IF Len(sorted) = 0 THEN <<e>>
    ELSE IF StrLess(SortKey(e), SortKey(Head(sorted))) THEN <<e>> \o sorted
    ELSE <<Head(sorted)>> \o InsertSorted(Tail(sorted), e)

RECURSIVE SortByBasename(_)
SortByBasename(entries) ==
    IF Len(entries) = 0 THEN <<>>
    ELSE InsertSorted(SortByBasename(SubSeq(entries, 1, Len(entries) - 1)), entries[Len(entries)])

\* every path of the walk is a file, so os.path.isfile holds for each
pick_latest_files_by_duplicate_d_date(files_list) ==
    LET chosen == PickLoop(<<>>, files_list)
        results == [i \in 1..Len(chosen) |->
                       [file |-> chosen[i].file, d_date |-> chosen[i].d_date,
                        jv_date |-> chosen[i].jv_date]]
    IN SortByBasename(results)

\* the files os.walk reports that the loop does not skip
Visible(path) ==
    /\ ~StartsWith(basename(path), <<".">>)
    /\ ~Contains(DirOf(path), cMACOSX)

IsDatabaseName(path) == Contains(Upper(basename(path)), cDATABASE)

\* the loop over os.walk: the first database file, and the other files in walk order
DiscoverKeepingAll(walk) ==
    LET seen == SelectSeq(walk, Visible)
        dbs == SelectSeq(seen, IsDatabaseName)
    IN [db_path |-> IF Len(dbs) > 0 THEN Some(dbs[1]) ELSE None, source_files |-> seen]
Discover(walk) ==
    LET seen == SelectSeq(walk, Visible)
        dbs == SelectSeq(seen, IsDatabaseName)
    IN [db_path |-> IF Len(dbs) > 0 THEN Some(dbs[1]) ELSE None,
        source_files |-> SelectSeq(seen, LAMBDA f : ~IsDatabaseName(f))]

\* the button handler up to the workbook: discovery, then process_data_in_memory's
\* selection of the files to process
ProcessUpload(walk) ==
    LET found == Discover(walk)
        files_to_process == pick_latest_files_by_duplicate_d_date(found.source_files)
        base == [walk |-> walk, db_path |-> found.db_path, source_files |-> found.source_files]
    IN IF ~found.db_path.ok
       THEN base @@ [status |-> "error_no_database", files_to_process |-> <<>>]
       ELSE IF Len(found.source_files) = 0
       THEN base @@ [status |-> "error_no_source", files_to_process |-> <<>>]
       ELSE IF Len(files_to_process) = 0
       THEN base @@ [status |-> "error_no_valid_source", files_to_process |-> <<>>]
       ELSE base @@ [status |-> "workbook", files_to_process |-> files_to_process]

\* the files an archive may hold
cCsv == <<".","c","s","v">>
fDb == cDATABASE \o <<".","x","l","s","x">>
fDb2 == <<"d","a","t","a","b","a","s","e","2",".","x","l","s","x">>
fNew == <<"J","V">> \o cD8 \o <<"-","D">> \o cD6 \o cCsv
fOld == <<"J","V","2","0","2","5","1","2","2","0","-","D">> \o cD6 \o cCsv
fNewTxt == <<"J","V">> \o cD8 \o <<"-","D">> \o cD6 \o <<".","t","x","t">>
fNoJv == <<"x","-","D">> \o cD6 \o cCsv
fOther == <<"J","V">> \o cD8 \o <<"_","d","2","5","1","1","1","1">> \o cCsv
fPlain == <<"x">> \o cCsv
fDat == <<"J","V">> \o cD8 \o <<"-","D">> \o cD6 \o <<".","d","a","t">>
fMac == cMACOSX \o <<"/", ".">> \o fNew

ArchiveFiles == {fDb, fDb2, fNew, fOld, fNewTxt, fNoJv, fOther, fPlain, fDat, fMac}

Perms(S) == {f \in [1..Cardinality(S) -> S] : \A i, j \in 1..Cardinality(S) : f[i] = f[j] => i = j}

\* os.walk lists the top folder first and then its sub-folders; inside one folder
\* the order of os.listdir is arbitrary
WalkOrders(files) ==
    LET top == {f \in files : DirOf(f) = <<>>}
    IN {a \o b : a \in Perms(top), b \in Perms(files \ top)}

\* the archive is uploaded and processed twice
Uploads == {1, 2}

InitDiscovery ==
    /\ pc = "upload"
    /\ archive \in {A \in SUBSET ArchiveFiles : Cardinality(A) <= MaxFiles}
    /\ runs = <<>>
    /\ IdleParser /\ IdleDecimal /\ IdlePipeline /\ IdleWorkbook

ProcessFiles ==
    /\ pc = "upload"
    /\ Len(runs) + 1 \in Uploads
    /\ \E walk \in WalkOrders(archive) : runs' = Append(runs, ProcessUpload(walk))
    /\ UNCHANGED <<pc, archive, parserVars, decimalVars, pipelineVars, workbookVars>>

SpecDiscovery == InitDiscovery /\ [][ProcessFiles]_vars

DateA(fn) == parse_dates_from_filename(fn).d
DateB(fn) == JvInt(parse_dates_from_filename(fn).jv)

\* C1: of the candidates with a recognised extension, the selection holds exactly one
\* file for each dateA that occurs, and no candidate of that dateA has a larger dateB
\* (a missing dateB counting as lowest).
C1_LatestPerDateA ==
    (Len(runs) > 0 /\ runs[Len(runs)].status \in {"workbook", "error_no_valid_source"}) =>
        LET run == runs[Len(runs)]
            cands == {run.source_files[i] : i \in 1..Len(run.source_files)}
            valid == {f \in cands : HasValidExt(f)}
            kept == {run.files_to_process[i].file : i \in 1..Len(run.files_to_process)}
        IN /\ kept \subseteq valid
           /\ Cardinality(kept) = Len(run.files_to_process)
           /\ \A f \in valid : DateA(f).ok =>
                 /\ Cardinality({g \in kept : DateA(g) = DateA(f)}) = 1
                 /\ \A g \in kept : DateA(g) = DateA(f) => DateB(g) >= DateB(f)

\* the older file was listed first and the newer one replaced it
C1_Witness ==
    /\ Len(runs) >= 1
    /\ runs[1].source_files = <<fOld, fNew>>
    /\ runs[1].status = "workbook"
    /\ Len(runs[1].files_to_process) = 1
    /\ runs[1].files_to_process[1].file = fNew

\* C10: two processings of the same archive (one that holds exactly one database
\* file, as the input format requires) select the same database file, the same source
\* files in the same order, and end the same way.
C10_Deterministic ==
    (Len(runs) = 2 /\ Cardinality({f \in archive : IsDatabaseName(f)}) = 1) =>
        /\ runs[1].status = runs[2].status
        /\ runs[1].db_path = runs[2].db_path
        /\ runs[1].files_to_process = runs[2].files_to_process

\* C16: the selection depends only on the set of candidate files: two listings of
\* the same candidates, in whatever order, give the same surviving files in the same
\* order.
C16_SelectorOrderIndependent ==
    (Len(runs) = 2 /\ runs[1].status = "workbook" /\ runs[2].status = "workbook") =>
        LET a == runs[1].source_files
            b == runs[2].source_files
        IN {a[i] : i \in 1..Len(a)} = {b[i] : i \in 1..Len(b)} =>
              pick_latest_files_by_duplicate_d_date(a) = pick_latest_files_by_duplicate_d_date(b)

\* C11: an archive with no file named like a database, or with no source file, or
\* with no source file of a recognised extension, ends in an error message and no
\* workbook is offered.
C11_ArchiveErrors ==
    \A i \in 1..Len(runs) :
        LET sources == {f \in archive : ~IsDatabaseName(f)}
        IN (\/ \A f \in archive : ~IsDatabaseName(f)
            \/ sources = {}
            \/ \A f \in sources : ~HasValidExt(f))
           => /\ runs[i].status \in {"error_no_database", "error_no_source", "error_no_valid_source"}
              /\ runs[i].files_to_process = <<>>

\* a database file and one source file, of an extension that is not recognised
C11_Witness ==
    /\ archive = {fDb, fDat}
    /\ Len(runs) = 1
    /\ runs[1].db_path = Some(fDb)
    /\ runs[1].source_files = <<fDat>>
    /\ runs[1].status = "error_no_valid_source"

----------------------------------------------------------------------------
(* process_data_in_memory, one source file: the two tables, their row keys, the    *)
(* report heights, and the lookup formulas as the spreadsheet evaluates them.      *)
(* A row carries id, its position as read, which stands for the row's cell values. *)

tlf_reserved_rows == 2
gl_reserved_rows == 10
KeyColumnIndex == 8         \* db_df.iloc[:, 8]

Max(a, b) == IF a >= b THEN a ELSE b

\* groupby(search_col).cumcount(): the rows before row i that hold the same text
CumCountNone(texts, i) == 0
CumCount(texts, i) == Cardinality({j \in 1..(i - 1) : texts[j] = texts[i]})

\* search_col + "|" + (cumcount + 1).astype(str)
SearchKeys(texts) == [i \in 1..Len(texts) |-> texts[i] \o <<"|">> \o NatToStr(CumCount(texts, i) + 1)]

\* the regex \|(\d+)\s*$ matches key with its "|" at position i and its last digit at j
RankAt(key, i, j) ==
    /\ key[i] = "|" /\ j > i
    /\ \A n \in (i + 1)..j : IsDigitChar(key[n])
    /\ \A n \in (j + 1)..Len(key) : key[n] = " "

\* str.extract: the group of the leftmost match, as a number; -1 stands for NaN
ExtractK(key) ==
    LET hits == {i \in 1..Len(key) : \E j \in i..Len(key) : RankAt(key, i, j)}
    IN IF hits = {} THEN -1
       ELSE LET i == CHOOSE x \in hits : \A y \in hits : x <= y
                j == CHOOSE x \in i..Len(key) : RankAt(key, i, x)
            IN DecValue(SubSeq(key, i + 1, j))

max_k_floor_only(keys) == 1
max_k_from_searchkey(keys) ==
    LET ks == {ExtractK(keys[i]) : i \in 1..Len(keys)} \ {-1}
    IN IF ks = {} THEN 1 ELSE CHOOSE m \in ks : \A n \in ks : n <= m

\* the number of columns of the database table as read
ColumnsRead(sheet) == IF sheet.ok THEN Len(usecols(tlf_indices, sheet.width)) ELSE 0

\* Load Database: strip every cell, then _SearchKey when the table has rows and more
\* than 8 columns
LoadDatabase(sheet) ==
    LET rows == IF sheet.ok THEN sheet.rows ELSE <<>>
        stripped == [i \in 1..Len(rows) |-> [id |-> rows[i].id, text |-> Strip(rows[i].text)]]
        keyed == Len(stripped) > 0 /\ ColumnsRead(sheet) > KeyColumnIndex
        search_col == [i \in 1..Len(stripped) |-> Strip(stripped[i].text)]
        keys == SearchKeys(search_col)
    IN [i \in 1..Len(stripped) |->
           [id |-> stripped[i].id, text |-> stripped[i].text,
            SearchKey |-> IF keyed THEN Some(keys[i]) ELSE None]]

\* the sort columns CH, RC, OC, Product Code, compared in that order
SortCols(r) == <<r.CH, r.RC, r.OC, r.PC>>

RECURSIVE TupleLess(_, _)
TupleLess(a, b) ==
    IF Len(a) = 0 THEN FALSE
    ELSE IF Head(a) # Head(b) THEN StrLess(Head(a), Head(b))
    ELSE TupleLess(Tail(a), Tail(b))

\* sort_values by several columns is stable
RECURSIVE InsertRow(_, _)
InsertRow(sorted, r) ==
    IF Len(sorted) = 0 THEN <<r>>
    ELSE IF TupleLess(SortCols(r), SortCols(Head(sorted))) THEN <<r>> \o sorted
    ELSE <<Head(sorted)>> \o InsertRow(Tail(sorted), r)

RECURSIVE SortRows(_)
SortRows(rows) ==
    IF Len(rows) = 0 THEN <<>>
    ELSE InsertRow(SortRows(SubSeq(rows, 1, Len(rows) - 1)), rows[Len(rows)])

KeepOrder(rows) == rows
sort_values(rows) == SortRows(rows)

\* Load Source: strip RC and CH, sort, then _SearchKey on Seq when the table has rows
LoadSource(rows) ==
    LET clean == [i \in 1..Len(rows) |->
                     [rows[i] EXCEPT !.RC = Strip(rows[i].RC), !.CH = Strip(rows[i].CH)]]
        sorted == sort_values(clean)
        keys == SearchKeys([i \in 1..Len(sorted) |-> sorted[i].Seq])
    IN [i \in 1..Len(sorted) |->
           [id |-> sorted[i].id, CH |-> sorted[i].CH, RC |-> sorted[i].RC,
            OC |-> sorted[i].OC, PC |-> sorted[i].PC, text |-> sorted[i].Seq,
            SearchKey |-> Some(keys[i])]]

KeyColumn(table) == [i \in 1..Len(table) |-> table[i].SearchKey.s]
HasKeys(table) == Len(table) > 0 /\ table[1].SearchKey.ok

\* effective_db_reserved_rows / effective_gl_reserved_rows
EffectiveRows(floor, table) ==
    IF HasKeys(table) THEN Max(floor, max_k_from_searchkey(KeyColumn(table))) ELSE floor

\* the report sections: one is written only for a table that is not empty, with one
\* formula row per r_offset in range(effective rows), looking up k_value = r_offset + 1
WriteReports(db, gl) ==
    [db_section |-> Len(db) > 0,
     db_rows |-> IF Len(db) > 0 THEN EffectiveRows(tlf_reserved_rows, db) ELSE 0,
     gl_section |-> Len(gl) > 0,
     gl_rows |-> IF Len(gl) > 0 THEN EffectiveRows(gl_reserved_rows, gl) ELSE 0]

\* The spreadsheet's MATCH(lookup, range, 0) on texts: the comparison ignores case,
\* and in the lookup text "?" stands for any one character and "*" for any run.
RECURSIVE MatchText(_, _)
MatchText(pattern, cell) ==
    IF Len(pattern) = 0 THEN Len(cell) = 0
    ELSE IF Head(pattern) = "*"
         THEN MatchText(Tail(pattern), cell) \/ (Len(cell) > 0 /\ MatchText(pattern, Tail(cell)))
    ELSE /\ Len(cell) > 0
         /\ (Head(pattern) = "?" \/ UpperChar(Head(pattern)) = UpperChar(Head(cell)))
         /\ MatchText(Tail(pattern), Tail(cell))

\* MATCH: the first cell of the range that matches, 0 for #N/A
MATCH(lookup, range) ==
    LET hits == {i \in 1..Len(range) : MatchText(lookup, range[i])}
    IN IF hits = {} THEN 0 ELSE CHOOSE i \in hits : \A j \in hits : i <= j

Blank == 0

\* =IFERROR(INDEX(data range, MATCH($B$1&"|"&k_value, key range, 0)), "")
\* for the cells of one report row: the matched row's values, or blank
\* The key range is the last column of the raw table: _SearchKey, or, in a table too
\* narrow to have one, its last data column, whose cell the row's text then stands for.
Formula(table, box, k_value) ==
    LET key_range == IF HasKeys(table) THEN KeyColumn(table)
                     ELSE [i \in 1..Len(table) |-> table[i].text]
        at == MATCH(box \o <<"|">> \o NatToStr(k_value), key_range)
    IN IF at = 0 THEN Blank ELSE table[at].id

Recalculate(box) ==
    [db |-> [k \in 1..layout.db_rows |-> Formula(db_df, box, k)],
     gl |-> [k \in 1..layout.gl_rows |-> Formula(gl_df, box, k)]]

\* the inputs
cA == <<"A">>
cALow == <<"a">>
cAPipe1 == <<"A", "|", "1">>
RawTexts == {cA, cALow, cAPipe1, <<" ", "A">>}
SeqTexts == {cA, cAPipe1}
SearchTexts == {cA, cALow, cAPipe1, <<"*">>, <<"B">>}

DbRows(texts) == [i \in 1..Len(texts) |-> [id |-> i, text |-> texts[i]]]
\* a sheet that holds every listed column, its header cells reading as the letters
FullSheet(rows) == [ok |-> TRUE, width |-> WidthTo(<<"D","P">>), named |-> FALSE, rows |-> rows]
DbSheets == {NoSheet} \cup {FullSheet(DbRows(ts)) : ts \in SeqsUpTo(RawTexts, MaxDbRows)}
DbFew == {NoSheet, FullSheet(DbRows(<<cA>>))}

GlKinds == [CH : {<<"1">>, <<"2">>}, RC : {<<"1">>}, OC : {<<"1">>}, PC : {<<"1">>, <<"2">>}, Seq : SeqTexts]
GlRows(kinds) == [i \in 1..Len(kinds) |-> kinds[i] @@ [id |-> i]]
GlSame(n) == GlRows([i \in 1..n |-> [CH |-> <<"1">>, RC |-> <<"1">>, OC |-> <<"1">>, PC |-> <<"1">>, Seq |-> cA]])
\* short tables of every kind of row, and tall tables of one repeated Seq around the floor
GlFiles == {GlRows(ks) : ks \in SeqsUpTo(GlKinds, MaxGlRows)}
           \cup {GlSame(n) : n \in (gl_reserved_rows - 1)..(gl_reserved_rows + MaxOver)}
GlFew == {<<>>, GlSame(1)}

gap_rows == 3

\* column names
cSearchKey == <<"_","S","e","a","r","c","h","K","e","y">>
cRC == <<"R","C">>
cOC == <<"O","C">>
cCH == <<"C","H">>
cProductCode == <<"P","r","o","d","u","c","t"," ","C","o","d","e">>
cAccountCode == <<"A","c","c","o","u","n","t"," ","C","o","d","e">>
cTax == <<"T","a","x">>
cDR == <<"D","R">>
cCR == <<"C","R">>
cSeq == <<"S","e","q">>
cDetails == <<"D","e","t","a","i","l","s">>
c_from_acct == <<"f","r","o","m","_","a","c","c","t">>
c_to_acct == <<"t","o","_","a","c","c","t">>
c_auth_branch_from == <<"a","u","t","h","_","b","r","a","n","c","h","_","f","r","o","m">>
c_amt_1_full == <<"a","m","t","_","1","_","f","u","l","l">>
c_resp_byte == <<"r","e","s","p","_","b","y","t","e">>

exclude_tlf_columns == <<c_from_acct, c_to_acct, c_auth_branch_from>>
gl_final_headers == <<cRC, cOC, cCH, cProductCode, cAccountCode, cTax, cDR, cCR, cSeq, cDetails>>

\* the header cell of sheet column col: the names the layout code knows stand in
\* columns G, I, J, K, M of a sheet with named headers, the letter in any other
LetterOf(col) == tlf_columns_letters[IndexIn(col, tlf_indices)]
HeaderCell(sheet, col) ==
    IF ~sheet.named THEN LetterOf(col)
    ELSE IF col = excel_col_to_index(<<"G">>) THEN c_from_acct
    ELSE IF col = excel_col_to_index(<<"I">>) THEN c_amt_1_full
    ELSE IF col = excel_col_to_index(<<"J">>) THEN c_to_acct
    ELSE IF col = excel_col_to_index(<<"K">>) THEN c_auth_branch_from
    ELSE IF col = excel_col_to_index(<<"M">>) THEN c_resp_byte
    ELSE LetterOf(col)

\* db_df.columns / gl_df.columns of the tables as written
DbColumns(sheet, table) ==
    LET cols == IF sheet.ok THEN usecols(tlf_indices, sheet.width) ELSE <<>>
    IN [j \in 1..Len(cols) |-> HeaderCell(sheet, cols[j])]
       \o (IF HasKeys(table) THEN <<cSearchKey>> ELSE <<>>)
GlColumns(table) == gl_final_headers \o (IF Len(table) > 0 THEN <<cSearchKey>> ELSE <<>>)

\* display_cols of the database report: without _SearchKey and the excluded names,
\* amt_1_full and resp_byte changing places when both are shown
display_cols(columns) ==
    LET excluded(c) == c = cSearchKey \/ IndexIn(c, exclude_tlf_columns) > 0
        shown == SelectSeq(columns, LAMBDA c : ~excluded(c))
        idx1 == IndexIn(c_amt_1_full, shown)
        idx2 == IndexIn(c_resp_byte, shown)
    IN IF idx1 > 0 /\ idx2 > 0
       THEN [shown EXCEPT ![idx1] = shown[idx2], ![idx2] = shown[idx1]]
       ELSE shown

\* gl_display_cols
gl_display_cols(columns) == SelectSeq(columns, LAMBDA c : c # cSearchKey)

search_ui_start_row == 1

raw_start_without_gl(db_ui_height, gl_ui_height) == search_ui_start_row + db_ui_height + gap_rows + 5
raw_data_start_row(db_ui_height, gl_ui_height) ==
    search_ui_start_row + db_ui_height + gap_rows + gl_ui_height + 5

\* a raw table written by to_excel(startrow = current_raw_row - 1, index = False):
\* its label one row above, the header in row current_raw_row, one row per table row
RawTable(current_raw_row, table, columns) ==
    [written |-> TRUE,
     label_row |-> current_raw_row - 1,
     header_row |-> current_raw_row,
     header |-> columns,
     data_start |-> current_raw_row + 1,
     data_end |-> current_raw_row + Len(table),
     key_col |-> Len(columns)]

\* a report section: its title, the header row, and one formula row per rank, each
\* formula with a key range and, per displayed column, a value range
ReportSection(report_row, height, shown, raw, value_cols) ==
    [written |-> TRUE,
     label_row |-> report_row,
     header_row |-> report_row + 1,
     header |-> shown,
     first_row |-> report_row + 2,
     last_row |-> report_row + 2 + height - 1,
     key_range |-> Range(raw.key_col, raw.data_start, raw.data_end),
     value_ranges |-> [i \in 1..Len(shown) |-> Range(value_cols[i], raw.data_start, raw.data_end)]]

\* Write Layout: the rows of the search box, the two report sections and the two raw
\* tables, and the ranges of the formulas
WriteLayout(db, db_columns, gl, gl_columns, heights) ==
    LET db_ui_height == 2 + (IF Len(db) > 0 THEN heights.db_rows ELSE 0)
        gl_ui_height == 2 + (IF Len(gl) > 0 THEN heights.gl_rows ELSE 0)
        start == raw_data_start_row(db_ui_height, gl_ui_height)
        raw_db == IF Len(db) > 0 THEN RawTable(start, db, db_columns) ELSE NoTable
        current_raw_row == IF Len(db) > 0 THEN start + Len(db) + 4 ELSE start
        raw_gl == IF Len(gl) > 0 THEN RawTable(current_raw_row, gl, gl_columns) ELSE NoTable
        db_shown == display_cols(db_columns)
        gl_shown == gl_display_cols(gl_columns)
        db_report_row == search_ui_start_row + 2
        db_report == IF Len(db) > 0
                     THEN ReportSection(db_report_row, heights.db_rows, db_shown, raw_db,
                                        [i \in 1..Len(db_shown) |-> IndexIn(db_shown[i], db_columns)])
                     ELSE NoSection
        gl_report_row == (IF Len(db) > 0 THEN db_report_row + 2 + heights.db_rows ELSE db_report_row)
                         + gap_rows
        gl_report == IF Len(gl) > 0
                     THEN ReportSection(gl_report_row, heights.gl_rows, gl_shown, raw_gl,
                                        [i \in 1..Len(gl_shown) |-> i])
                     ELSE NoSection
    IN [search_row |-> search_ui_start_row,
        db_report |-> db_report, gl_report |-> gl_report,
        raw_db |-> raw_db, raw_gl |-> raw_gl]

InitPipeline ==
    /\ pc = "load"
    /\ IdleSelection
    /\ \/ db_sheet \in DbSheets /\ gl_file \in GlFew
       \/ db_sheet \in DbFew /\ gl_file \in GlFiles
    /\ db_df = <<>> /\ gl_df = <<>>
    /\ layout = NoLayout /\ ws = NoWorksheet
    /\ searchbox = <<>> /\ report = [db |-> <<>>, gl |-> <<>>]
    /\ IdleParser /\ IdleDecimal /\ IdleDiscovery /\ IdleWorkbook

\* the body of the per-file try, when nothing raises
ProcessFile ==
    /\ pc = "load"
    /\ db_df' = LoadDatabase(db_sheet)
    /\ gl_df' = LoadSource(gl_file)
    /\ layout' = WriteReports(db_df', gl_df')
    /\ ws' = WriteLayout(db_df', DbColumns(db_sheet, db_df'), gl_df', GlColumns(gl_df'), layout')
    /\ pc' = "written"
    /\ UNCHANGED <<item, db_book, db_sheet_to_use, db_sheet, gl_file, searchbox, report,
                   parserVars, decimalVars, discoveryVars, workbookVars>>

\* the user types a text in the search box and the sheet recalculates
Search ==
    /\ pc \in {"written", "searched"}
    /\ \E box \in SearchTexts :
          /\ searchbox' = box
          /\ report' = Recalculate(box)
    /\ pc' = "searched"
    /\ UNCHANGED <<item, db_book, db_sheet_to_use, db_sheet, gl_file, db_df, gl_df, layout, ws,
                   parserVars, decimalVars, discoveryVars, workbookVars>>

SpecPipeline == InitPipeline /\ [][ProcessFile \/ Search]_vars

\* the rows of a table that hold the same key-column text as row i and were read
\* no later than it / stand no lower than it in the table as written
SeenByRead(table, i) == {j \in 1..Len(table) : table[j].text = table[i].text /\ table[j].id <= table[i].id}
SeenByPlace(table, i) == {j \in 1..i : table[j].text = table[i].text}

KeyIs(table, i, n) == table[i].SearchKey = Some(table[i].text \o <<"|">> \o NatToStr(n))

\* C3 as claimed: in both tables the key of a row is its text, "|", and the count of
\* rows with that text read at or before it (ranks in as-read order).
C3_KeysInReadOrder ==
    pc # "load" =>
        /\ \A i \in 1..Len(db_df) : KeyIs(db_df, i, Cardinality(SeenByRead(db_df, i)))
        /\ \A i \in 1..Len(gl_df) : KeyIs(gl_df, i, Cardinality(SeenByRead(gl_df, i)))

\* C3 amended: the database table is written in the order read and its ranks count in
\* that order; the source table is written sorted by CH, RC, OC, Product Code (rows
\* equal in all four staying in the order read) and its ranks count in that sorted order.
C3_KeysInWrittenOrder ==
    pc # "load" =>
        /\ \A i \in 1..Len(db_df) :
              /\ db_df[i].id = i
              /\ KeyIs(db_df, i, Cardinality(SeenByRead(db_df, i)))
        /\ \A i \in 1..Len(gl_df) : KeyIs(gl_df, i, Cardinality(SeenByPlace(gl_df, i)))
        /\ \A i, j \in 1..Len(gl_df) : i < j =>
              /\ ~TupleLess(SortCols(gl_df[j]), SortCols(gl_df[i]))
              /\ SortCols(gl_df[i]) = SortCols(gl_df[j]) => gl_df[i].id < gl_df[j].id
        /\ {gl_df[i].id : i \in 1..Len(gl_df)} = 1..Len(gl_file)

\* two source rows with the same Seq were read in one order and written in the other:
\* the row read second holds rank 1
C3_Witness ==
    /\ pc = "written"
    /\ Len(gl_df) = 2
    /\ gl_df[1].id = 2 /\ gl_df[1].SearchKey = Some(<<"A", "|", "1">>)
    /\ gl_df[2].id = 1 /\ gl_df[2].SearchKey = Some(<<"A", "|", "2">>)

\* C4: inside one table no two rows hold the same RowKey.
C4_KeysUnique ==
    pc # "load" =>
        /\ \A i, j \in 1..Len(db_df) : (db_df[i].SearchKey.ok /\ db_df[i].SearchKey = db_df[j].SearchKey) => i = j
        /\ \A i, j \in 1..Len(gl_df) : (gl_df[i].SearchKey.ok /\ gl_df[i].SearchKey = gl_df[j].SearchKey) => i = j

\* a table that repeats a text and also holds a text that looks like a key of it
C4_Witness ==
    /\ pc = "written"
    /\ Len(db_df) = 3
    /\ [i \in 1..3 |-> db_df[i].text] = <<cA, cAPipe1, cA>>
    /\ [i \in 1..3 |-> db_df[i].SearchKey.s] = <<<<"A","|","1">>, <<"A","|","1","|","1">>, <<"A","|","2">>>>

\* the largest number of rows of the table that share one key-column text
LargestRank(table) ==
    LET counts == {Cardinality({j \in 1..Len(table) : table[j].text = table[i].text}) : i \in 1..Len(table)}
    IN IF counts = {} THEN 0 ELSE CHOOSE m \in counts : \A n \in counts : n <= m

\* every row of the table has a formula row of its rank
Reachable(table, rows) == \A i \in 1..Len(table) : Cardinality(SeenByPlace(table, i)) \in 1..rows

\* C5 as claimed: the database section has max(2, largest rank) formula rows and the
\* source section max(10, largest rank), so every row is reachable.
C5_ReportHeights ==
    pc # "load" =>
        /\ layout.db_rows = Max(tlf_reserved_rows, LargestRank(db_df))
        /\ layout.gl_rows = Max(gl_reserved_rows, LargestRank(gl_df))
        /\ Reachable(db_df, layout.db_rows)
        /\ Reachable(gl_df, layout.gl_rows)

\* C5 amended: a table that has rows gets a section of max(floor, largest rank among
\* its row keys) formula rows, so every row is reachable; a table without rows gets no
\* section and no formula rows.
C5_ReportHeightsOfWrittenSections ==
    pc # "load" =>
        /\ layout.db_section = (Len(db_df) > 0)
        /\ layout.gl_section = (Len(gl_df) > 0)
        /\ layout.db_rows = IF Len(db_df) > 0 THEN Max(tlf_reserved_rows, LargestRank(db_df)) ELSE 0
        /\ layout.gl_rows = IF Len(gl_df) > 0 THEN Max(gl_reserved_rows, LargestRank(gl_df)) ELSE 0
        /\ Reachable(db_df, layout.db_rows)
        /\ Reachable(gl_df, layout.gl_rows)

\* a source table whose ranks pass the floor of 10: the section grew to 11 rows
C5_Witness ==
    /\ pc = "written"
    /\ LargestRank(gl_df) = gl_reserved_rows + 1
    /\ layout.gl_rows = gl_reserved_rows + 1
    /\ layout.db_section /\ layout.db_rows = tlf_reserved_rows

\* the k-th row of the table, top to bottom, whose key-column text is box; Blank if none
KthOccurrence(table, box, k) ==
    LET hits == {i \in 1..Len(table) : table[i].text = box /\ Cardinality(SeenByPlace(table, i)) = k}
    IN IF hits = {} THEN Blank ELSE table[CHOOSE i \in hits : TRUE].id

\* C6: with text X in the search box (X free of the wildcard characters), the report
\* row of rank k shows the values of the k-th occurrence of X in the raw table, and
\* blank when there are fewer than k.
C6_LookupShowsKthOccurrence ==
    (pc = "searched" /\ \A n \in 1..Len(searchbox) : searchbox[n] \notin {"*", "?"}) =>
        /\ \A k \in 1..layout.db_rows : report.db[k] = KthOccurrence(db_df, searchbox, k)
        /\ \A k \in 1..layout.gl_rows : report.gl[k] = KthOccurrence(gl_df, searchbox, k)

----------------------------------------------------------------------------
(* One pass of the loop over files_to_process: the database sheet looked up for   *)
(* the file, then the per-file try.                                                *)

\* re.sub(r"GL", "", s, flags=re.IGNORECASE): every occurrence, left to right
RECURSIVE RemoveGL(_)
RemoveGL(s) ==
    IF Len(s) < 2 THEN s
    ELSE IF UpperChar(s[1]) = "G" /\ UpperChar(s[2]) = "L" THEN RemoveGL(SubSeq(s, 3, Len(s)))
    ELSE <<s[1]>> \o RemoveGL(Tail(s))

\* the last position of character c in s, 0 when absent (str.rfind + 1)
LastIndexOf(s, c) ==
    LET at == {i \in 1..Len(s) : s[i] = c}
    IN IF at = {} THEN 0 ELSE CHOOSE i \in at : \A j \in at : j <= i

\* os.path.splitext(p)[0]: p up to its last dot, when that dot stands in the last
\* path component and a character other than a dot stands before it there
splitext_root(p) ==
    LET sep == LastIndexOf(p, "/")
        dot == LastIndexOf(p, ".")
    IN IF dot > sep /\ \E k \in (sep + 1)..(dot - 1) : p[k] # "."
       THEN SubSeq(p, 1, dot - 1)
       ELSE p

\* the leftmost start position at which [-_]?D\d{6} matches, 0 when none does
RECURSIVE DSearchStart(_, _)
DSearchStart(s, st) ==
    IF st > Len(s) THEN 0
    ELSE IF DMatchAt(s, st) > 0 THEN st
    ELSE DSearchStart(s, st + 1)

\* re.sub(r"[-_]?D\d{6}.*$", "", name_no_ext, flags=re.IGNORECASE).strip()
strip_d_suffix_for_tlf_sheet(name_no_ext) ==
    LET st == DSearchStart(name_no_ext, 1)
    IN IF st = 0 THEN Strip(name_no_ext) ELSE Strip(SubSeq(name_no_ext, 1, st - 1))

fallback_lookup_name(fname) == strip_d_suffix_for_tlf_sheet(Strip(splitext_root(RemoveGL(fname))))

fallback_first(fname, chosen_d_date) ==
    <<fallback_lookup_name(fname)>>
    \o (IF chosen_d_date.ok THEN <<chosen_d_date.s, <<"D">> \o chosen_d_date.s>> ELSE <<>>)
db_lookup_candidates(fname, chosen_d_date) ==
    (IF chosen_d_date.ok THEN <<chosen_d_date.s, <<"D">> \o chosen_d_date.s>> ELSE <<>>)
    \o <<fallback_lookup_name(fname)>>

\* the loop over the candidates: the first one that is not empty and names a sheet
RECURSIVE FirstSheet(_, _)
FirstSheet(cands, sheet_names) ==
    IF Len(cands) = 0 THEN None
    ELSE IF Len(Head(cands)) > 0 /\ Head(cands) \in sheet_names THEN Some(Head(cands))
    ELSE FirstSheet(Tail(cands), sheet_names)

SheetToUse(it, sheet_names) ==
    FirstSheet(db_lookup_candidates(basename(it.file), it.d_date), sheet_names)

\* the source files and the sheet names of the database workbook
c251110 == cD6
cD251110 == <<"D">> \o cD6
cd251110 == <<"d">> \o cD6
cX == <<"x">>
cATMI_ == <<"A","T","M","I","_">>
cJV8 == <<"J","V">> \o cD8
sGlDate == <<"G","L","-","D">> \o cD6 \o cCsv
sAtmi == <<"A","T","M","I","_","G","L","_","D">> \o cD6 \o cCsv
sGlX == <<"G","L","x">> \o cCsv
sLowD == <<"x"," ","d">> \o cD6 \o cCsv
sGlOnly == <<"g","l","G","L",".","t","x","t">>
SelectFiles == {sGlDate, sAtmi, sGlX, sLowD, sGlOnly, fNew, fPlain}
BookNames == {c251110, cD251110, cd251110, cX, cATMI_, cJV8}

\* the entry pick_latest_files_by_duplicate_d_date returns for a file
ItemOf(f) == pick_latest_files_by_duplicate_d_date(<<f>>)[1]

\* database sheets of every width, with lettered and with named headers, their rows
\* all of one key text so that the ranks pass the floor of the report height
LayoutSheets ==
    {[ok |-> TRUE, width |-> w, named |-> n, rows |-> DbRows([i \in 1..h |-> cA])] :
        w \in DbWidths \cup {WidthTo(<<"V">>)}, n \in BOOLEAN, h \in 0..MaxDbRows}
LayoutFiles == {<<>>, GlSame(1), GlSame(gl_reserved_rows + MaxOver)}

\* either every file against every set of sheet names, or one file whose sheet is
\* found, with tables of every shape
InitSheet ==
    /\ pc = "item"
    /\ \/ /\ item \in {ItemOf(f) : f \in SelectFiles}
          /\ \E names \in SUBSET BookNames :
                db_book = [n \in names |-> FullSheet(DbRows(<<cA>>))]
          /\ gl_file = GlSame(1)
       \/ /\ item = ItemOf(fNew)
          /\ \E sheet \in LayoutSheets : db_book = [n \in {c251110} |-> sheet]
          /\ gl_file \in LayoutFiles
    /\ db_sheet_to_use = None
    /\ db_sheet = NoSheet
    /\ db_df = <<>> /\ gl_df = <<>>
    /\ layout = NoLayout /\ ws = NoWorksheet
    /\ searchbox = <<>> /\ report = [db |-> <<>>, gl |-> <<>>]
    /\ IdleParser /\ IdleDecimal /\ IdleDiscovery /\ IdleWorkbook

\* one pass of the loop: the sheet lookup and the body of the try, when nothing raises
ProcessItem ==
    /\ pc = "item"
    /\ db_sheet_to_use' = SheetToUse(item, DOMAIN db_book)
    /\ db_sheet' = IF db_sheet_to_use'.ok THEN db_book[db_sheet_to_use'.s] ELSE NoSheet
    /\ db_df' = LoadDatabase(db_sheet')
    /\ gl_df' = LoadSource(gl_file)
    /\ layout' = WriteReports(db_df', gl_df')
    /\ ws' = WriteLayout(db_df', DbColumns(db_sheet', db_df'), gl_df', GlColumns(gl_df'), layout')
    /\ pc' = "written"
    /\ UNCHANGED <<item, db_book, gl_file, searchbox, report,
                   parserVars, decimalVars, discoveryVars, workbookVars>>

\* the sheet found lacks a listed column: pandas releases that reject the read raise,
\* the per-file except skips the file before its sheet is created
ProcessItemRaises ==
    /\ pc = "item"
    /\ LET use == SheetToUse(item, DOMAIN db_book)
       IN /\ use.ok
          /\ Missing(tlf_indices, db_book[use.s].width)
          /\ db_sheet_to_use' = use
    /\ pc' = "skipped"
    /\ UNCHANGED <<item, db_book, db_sheet, gl_file, db_df, gl_df, layout, ws, searchbox, report,
                   parserVars, decimalVars, discoveryVars, workbookVars>>

SpecSheet == InitSheet /\ [][ProcessItem \/ ProcessItemRaises]_vars

\* C12: the file's dateA, then "D" + dateA, then the fallback name are looked up among
\* the sheet names of the database workbook and the first one found is the sheet
\* used; when none is found the database table and its section are empty and the
\* source table and its section are written all the same.
C12_SheetSelection ==
    pc = "written" =>
        LET names == DOMAIN db_book
            dateA == DateA(item.file)
            byDate == dateA.ok /\ dateA.s \in names
            byDDate == dateA.ok /\ (<<"D">> \o dateA.s) \in names
            fallback == fallback_lookup_name(basename(item.file))
        IN /\ byDate => db_sheet_to_use = Some(dateA.s)
           /\ (~byDate /\ byDDate) => db_sheet_to_use = Some(<<"D">> \o dateA.s)
           /\ (~byDate /\ ~byDDate /\ fallback \in names) => db_sheet_to_use = Some(fallback)
           /\ (~byDate /\ ~byDDate /\ fallback \notin names) =>
                 /\ db_sheet_to_use = None
                 /\ db_df = <<>> /\ ~layout.db_section /\ layout.db_rows = 0
                 /\ gl_df = LoadSource(gl_file) /\ Len(gl_df) = Len(gl_file)
                 /\ layout.gl_section
           /\ db_sheet_to_use.ok => db_sheet = db_book[db_sheet_to_use.s]

\* dateA is not a sheet name, "D" + dateA and the fallback name both are
C12_Witness ==
    /\ pc = "written"
    /\ item.file = fNew
    /\ DOMAIN db_book = {cD251110, cJV8}
    /\ db_sheet_to_use = Some(cD251110)
    /\ layout.db_section

\* the formulas of a report section point at the raw table: the key range at its
\* _SearchKey column, each value range at the column whose header is the field shown,
\* all of them from the first data row (below the header) to the last
Aligned(section, raw, height) ==
    /\ raw.written
    /\ section.key_range = Range(IndexIn(cSearchKey, raw.header), raw.header_row + 1, raw.header_row + height)
    /\ Len(section.value_ranges) = Len(section.header)
    /\ \A i \in 1..Len(section.header) :
          section.value_ranges[i] =
              Range(IndexIn(section.header[i], raw.header), raw.header_row + 1, raw.header_row + height)

\* C14: on every sheet the key range of the lookup formulas is the RowKey column of
\* the raw table over exactly its data rows, and every value range is the column of
\* the displayed field over the same rows; also for a database table too narrow for
\* a RowKey column.
C14_FormulaRangesAligned ==
    pc = "written" =>
        /\ ws.db_report.written => Aligned(ws.db_report, ws.raw_db, Len(db_df))
        /\ ws.gl_report.written => Aligned(ws.gl_report, ws.raw_gl, Len(gl_df))

\* the blocks of rows of a sheet, top to bottom
Blocks ==
    <<[used |-> TRUE, first |-> ws.search_row, last |-> ws.search_row],
      [used |-> ws.db_report.written, first |-> ws.db_report.label_row, last |-> ws.db_report.last_row],
      [used |-> ws.gl_report.written, first |-> ws.gl_report.label_row, last |-> ws.gl_report.last_row],
      [used |-> ws.raw_db.written, first |-> ws.raw_db.label_row, last |-> ws.raw_db.data_end],
      [used |-> ws.raw_gl.written, first |-> ws.raw_gl.label_row, last |-> ws.raw_gl.data_end]>>

\* C15: on every sheet the rows of the search box, the database report, the source
\* report, the raw database table and the raw source table (each with its label and
\* header) follow one another without a shared row, whatever the heights, an empty
\* database table included.
C15_LayoutBlocksDisjoint ==
    pc = "written" =>
        /\ \A a \in 1..Len(Blocks) : Blocks[a].used => 1 <= Blocks[a].first /\ Blocks[a].first <= Blocks[a].last
        /\ \A a, b \in 1..Len(Blocks) :
              (a < b /\ Blocks[a].used /\ Blocks[b].used) => Blocks[a].last < Blocks[b].first
        /\ ws.db_report.written = (Len(db_df) > 0) /\ ws.raw_db.written = (Len(db_df) > 0)
        /\ ws.gl_report.written = (Len(gl_df) > 0) /\ ws.raw_gl.written = (Len(gl_df) > 0)
        /\ ws.db_report.written =>
              /\ ws.db_report.last_row - ws.db_report.first_row + 1 = layout.db_rows
              /\ ws.db_report.first_row = ws.db_report.label_row + 2
              /\ ws.raw_db.data_end - ws.raw_db.label_row = Len(db_df) + 1
        /\ ws.gl_report.written =>
              /\ ws.gl_report.last_row - ws.gl_report.first_row + 1 = layout.gl_rows
              /\ ws.gl_report.first_row = ws.gl_report.label_row + 2
              /\ ws.raw_gl.data_end - ws.raw_gl.label_row = Len(gl_df) + 1

\* both tables past their floors (3 and 11 report rows): the reports take rows 3-7 and
\* 11-23, the raw database table rows 26-30, the raw source table rows 33-45
C15_Witness ==
    /\ pc = "written"
    /\ Len(db_df) = tlf_reserved_rows + 1 /\ Len(gl_df) = gl_reserved_rows + 1
    /\ layout.db_rows = tlf_reserved_rows + 1 /\ layout.gl_rows = gl_reserved_rows + 1
    /\ ws.db_report.label_row = 3 /\ ws.db_report.last_row = 7
    /\ ws.gl_report.label_row = 11 /\ ws.gl_report.last_row = 23
    /\ ws.raw_db.label_row = 26 /\ ws.raw_db.data_end = 30
    /\ ws.raw_gl.label_row = 33 /\ ws.raw_gl.data_end = 45

----------------------------------------------------------------------------
(* The loop over files_to_process: the per-file try, make_unique_sheet_name and    *)
(* create_sheet, and the end of process_data_in_memory.                            *)

MaxTitleLen == 31

InBook(book, name) == \E n \in 1..Len(book) : book[n] = name

SuffixedWhole(base, i) == base \o <<"_">> \o NatToStr(i)
\* suffix = f"_{i}"; name = (base[: 31 - len(suffix)] + suffix)[:31]
Suffixed(base, i) ==
    LET suffix == <<"_">> \o NatToStr(i)
    IN Slice(Slice(base, 0, MaxTitleLen - Len(suffix)) \o suffix, 0, MaxTitleLen)

\* the while loop: the free name, and the number of names it turned down
RECURSIVE FreeName(_, _, _, _)
FreeName(book, base, name, i) ==
    IF InBook(book, name) THEN FreeName(book, base, Suffixed(base, i), i + 1)
    ELSE [name |-> name, tries |-> i - 2]

cSheet == <<"S", "h", "e", "e", "t">>

make_unique_sheet_name(book, desired_name) ==
    LET base == Slice(IF Len(desired_name) > 0 THEN desired_name ELSE cSheet, 0, MaxTitleLen)
    IN FreeName(book, base, base, 2)

\* the steps of the try at which an exception leaves the file: while the tables are
\* read, while they are transformed, or while the layout is written, which is after
\* create_sheet has put the sheet in the book
FailPoints == {"none", "read", "transform", "write"}
SheetCreated(fail) == fail \in {"none", "write"}

Rep(c, n) == [i \in 1..n |-> c]
nX == <<"x">>
nX2 == <<"x", "_", "2">>
nLong == Rep("a", MaxTitleLen)
nLonger == Rep("a", MaxTitleLen + 2)
DesiredNames == {nX, nX2, nLong, nLonger, cSheet}

InitWorkbook ==
    /\ pc = "files"
    /\ todo \in SeqsUpTo(DesiredNames, MaxSheets)
    /\ sheetnames = <<>>
    /\ done = <<>>
    /\ IdleParser /\ IdleDecimal /\ IdleDiscovery /\ IdlePipeline

\* one turn of the loop over files_to_process
HandleFile ==
    /\ pc = "files"
    /\ Len(todo) > 0
    /\ \E fail \in FailPoints :
          LET target == make_unique_sheet_name(sheetnames, Head(todo))
          IN /\ sheetnames' = IF SheetCreated(fail) THEN Append(sheetnames, target.name) ELSE sheetnames
             /\ done' = Append(done, [desired |-> Head(todo), fail |-> fail, book |-> sheetnames,
                                      sheet |-> IF SheetCreated(fail) THEN Some(target.name) ELSE None,
                                      tries |-> IF SheetCreated(fail) THEN target.tries ELSE 0])
    /\ todo' = Tail(todo)
    /\ UNCHANGED <<pc, parserVars, decimalVars, discoveryVars, pipelineVars>>

\* after the loop: the sheet called "Sheet" is deleted when there are others, and the
\* writer saves the book, which raises when it holds no sheet
Finish ==
    /\ pc = "files"
    /\ Len(todo) = 0
    /\ sheetnames' = IF InBook(sheetnames, cSheet) /\ Len(sheetnames) > 1
                     THEN SelectSeq(sheetnames, LAMBDA n : n # cSheet)
                     ELSE sheetnames
    /\ pc' = IF Len(sheetnames) = 0 THEN "error_returned" ELSE "workbook_returned"
    /\ UNCHANGED <<todo, done, parserVars, decimalVars, discoveryVars, pipelineVars>>

SpecWorkbook == InitWorkbook /\ [][HandleFile \/ Finish]_vars

\* C7: a file whose processing raised has no sheet in the book, and every file
\* handled after it without raising has its sheet.
C7_FailedFileLeavesNoSheet ==
    pc = "files" =>
        \A i \in 1..Len(done) :
            /\ done[i].fail # "none" => ~done[i].sheet.ok
            /\ done[i].fail = "none" => (done[i].sheet.ok /\ InBook(sheetnames, done[i].sheet.s))

\* the first suffix number, from 2 up, whose name is not in the book
FirstFree(book, base) == CHOOSE i \in 2..(Len(book) + 2) :
    /\ ~InBook(book, Slice(base, 0, MaxTitleLen - 1 - Len(NatToStr(i))) \o <<"_">> \o NatToStr(i))
    /\ \A j \in 2..(i - 1) : InBook(book, Slice(base, 0, MaxTitleLen - 1 - Len(NatToStr(j))) \o <<"_">> \o NatToStr(j))

\* C9: the names in the book are pairwise distinct and at most 31 characters long; a
\* desired name (cut to 31) that is not in the book is used as it is, a colliding one
\* gets the smallest free suffix _2, _3, ... on a base shortened to fit; the search
\* turns down no more names than the book holds.
C9_SheetNames ==
    /\ \A i, j \in 1..Len(sheetnames) : sheetnames[i] = sheetnames[j] => i = j
    /\ \A i \in 1..Len(sheetnames) : Len(sheetnames[i]) <= MaxTitleLen
    /\ \A n \in 1..Len(done) : done[n].sheet.ok =>
          LET book == done[n].book
              cut == SubSeq(done[n].desired, 1, IF Len(done[n].desired) > MaxTitleLen THEN MaxTitleLen ELSE Len(done[n].desired))
              name == done[n].sheet.s
          IN /\ Len(name) <= MaxTitleLen
             /\ ~InBook(book, name)
             /\ done[n].tries <= Len(book)
             /\ IF ~InBook(book, cut) THEN name = cut
                ELSE LET i == FirstFree(book, cut)
                     IN /\ name = SubSeq(cut, 1, Len(name) - 1 - Len(NatToStr(i))) \o <<"_">> \o NatToStr(i)
                        /\ Len(name) = IF Len(cut) + 1 + Len(NatToStr(i)) > MaxTitleLen
                                       THEN MaxTitleLen ELSE Len(cut) + 1 + Len(NatToStr(i))

\* three files wanting the same 31-character name: the second and third were shortened
\* and suffixed
C9_Witness ==
    /\ Len(done) = 3
    /\ sheetnames = <<nLong, Rep("a", MaxTitleLen - 2) \o <<"_", "2">>, Rep("a", MaxTitleLen - 2) \o <<"_", "3">>>>
    /\ done[3].desired = nLonger

----------------------------------------------------------------------------
(* The whole model: every part from its own initial states *)

Init ==
    \/ InitParse \/ InitDecimal \/ InitColumns \/ InitDiscovery
    \/ InitPipeline \/ InitSheet \/ InitWorkbook

Next ==
    \/ Parse \/ ConvertCell \/ ReadColumns \/ ReadRaises \/ ProcessFiles
    \/ ProcessFile \/ Search \/ ProcessItem \/ ProcessItemRaises \/ HandleFile \/ Finish

Spec == Init /\ [][Next]_vars

====
